---- MODULE Spec2Model ----
(***************************************************************************)
(* A model of image_gallery.py: a Flask application that stores uploaded  *)
(* images in the directory ./gallery_images and lists, serves and deletes *)
(* them.  File names are sequences of one-character strings so that the   *)
(* string functions of the code (secure_filename, allowed_file, the       *)
(* pathlib stem/suffix split, the counter formatting) are computed, not   *)
(* assumed.  The file system is a function from absolute paths to nodes.  *)
(* Every request handler is split at its file-system calls: exactly the   *)
(* points at which another request of a threaded server can interleave.   *)
(***************************************************************************)
EXTENDS Integers, Sequences, FiniteSets, TLC

(***************************************************************************)
(* Characters and strings                                                 *)
(***************************************************************************)

\* The characters secure_filename keeps: [A-Za-z0-9_.-], restricted to the
\* letters and digits the model's names use.
SafeChars ==
    {"a", "b", "e", "g", "k", "n", "p", "x", "G", "N", "P",
     "0", "1", "2", "3", "4", "5", "6", "7", "8", "9", "_", ".", "-"}

\* str.lower() on one character.
LowerChar(c) ==
    CASE c = "G" -> "g"
      [] c = "N" -> "n"
      [] c = "P" -> "p"
      [] OTHER -> c

LowerStr(s) == [i \in 1..Len(s) |-> LowerChar(s[i])]

\* Concatenation of a sequence of strings.
RECURSIVE Flatten(_)
Flatten(ss) == IF ss = <<>> THEN <<>> ELSE Head(ss) \o Flatten(Tail(ss))

\* The characters of s that satisfy keep, in order.
RECURSIVE Filter(_, _)
Filter(s, keep) ==
    IF s = <<>> THEN <<>>
    ELSE (IF Head(s) \in keep THEN <<Head(s)>> ELSE <<>>) \o Filter(Tail(s), keep)

\* Index of the last "." of s, 0 when there is none (str.rfind + 1).
LastDot(s) ==
    IF \E i \in 1..Len(s) : s[i] = "."
    THEN CHOOSE i \in 1..Len(s) : s[i] = "." /\ \A j \in (i+1)..Len(s) : s[j] # "."
    ELSE 0


\* Characters a client can send that secure_filename removes or rewrites:
\* the space, the POSIX separator, the backslash, and two non-ASCII
\* characters (U+00E9 decomposes under NFKD into "e" and the combining
\* accent U+0301; U+65E5 has no decomposition).
Whitespace == {" "}
AsciiChars == SafeChars \cup Whitespace \cup {"/", "\\"}

\* str.split(): the maximal runs of characters of s outside seps; w is the
\* run being read.
RECURSIVE Split(_, _, _)
Split(s, seps, w) ==
    IF s = <<>> THEN (IF w = <<>> THEN <<>> ELSE <<w>>)
    ELSE IF Head(s) \in seps
         THEN (IF w = <<>> THEN <<>> ELSE <<w>>) \o Split(Tail(s), seps, <<>>)
         ELSE Split(Tail(s), seps, Append(w, Head(s)))

\* sep.join(ws)
RECURSIVE Join(_, _)
Join(sep, ws) ==
    IF ws = <<>> THEN <<>>
    ELSE IF Len(ws) = 1 THEN ws[1]
    ELSE ws[1] \o sep \o Join(sep, Tail(ws))

RECURSIVE LStrip(_, _)
LStrip(s, cs) == IF s # <<>> /\ Head(s) \in cs THEN LStrip(Tail(s), cs) ELSE s

RECURSIVE RStrip(_, _)
RStrip(s, cs) ==
    IF s # <<>> /\ s[Len(s)] \in cs THEN RStrip(SubSeq(s, 1, Len(s) - 1), cs) ELSE s

\* str.strip(cs)
Strip(s, cs) == RStrip(LStrip(s, cs), cs)

\* str(n) for n >= 0: the decimal digits of n.
Digit(d) == <<"0", "1", "2", "3", "4", "5", "6", "7", "8", "9">>[d + 1]

RECURSIVE IntToStr(_)
IntToStr(n) == IF n < 10 THEN <<Digit(n)>> ELSE IntToStr(n \div 10) \o <<Digit(n % 10)>>

(***************************************************************************)
(* Configuration (lines 13-20)                                            *)
(***************************************************************************)

ALLOWED_EXTENSIONS ==
    { <<"p","n","g">>, <<"j","p","g">>, <<"j","p","e","g">>,
      <<"g","i","f">>, <<"w","e","b","p">> }

MAX_FILE_SIZE == 50 * 1024 * 1024

\* app.config['MAX_CONTENT_LENGTH']: Flask compares it with the
\* Content-Length of the whole request.
MAX_CONTENT_LENGTH == MAX_FILE_SIZE

(***************************************************************************)
(* Helper functions of the code                                           *)
(***************************************************************************)

\* unicodedata.normalize("NFKD", c) for one character.
NFKD(c) == IF c = "U+00E9" THEN <<"e", "U+0301">> ELSE <<c>>

\* The name used as the client sent it.
SecureFilenameIdentity(filename) == filename

\* werkzeug.utils.secure_filename on a POSIX host (os.sep = "/", no altsep;
\* the device-name rule applies on Windows only).

secure_filename(filename) ==
    LET nfkd   == Flatten([i \in 1..Len(filename) |-> NFKD(filename[i])])
        ascii  == Filter(nfkd, AsciiChars)
        nosep  == [i \in 1..Len(ascii) |-> IF ascii[i] = "/" THEN " " ELSE ascii[i]]
        joined == Join(<<"_">>, Split(nosep, Whitespace, <<>>))
        kept   == Filter(joined, SafeChars)
    IN  Strip(kept, {".", "_"})

\* filename.rsplit('.', 1)[1]
AfterLastDot(s) == SubSeq(s, LastDot(s) + 1, Len(s))

\* The check that only looks for a ".".
AllowedFileAnyExtension(filename) == LastDot(filename) # 0

\* allowed_file (lines 23-25)
allowed_file(filename) ==
    /\ LastDot(filename) # 0
    /\ LowerStr(AfterLastDot(filename)) \in ALLOWED_EXTENSIONS

(***************************************************************************)
(* pathlib and the file system                                            *)
(***************************************************************************)

\* A path is a record [abs, parts]: parts are its components, ".." among
\* them; the kernel resolves it when a system call uses it.
Path(abs, parts) == [abs |-> abs, parts |-> parts]

\* The process's working directory and the storage directory (line 13).
Cwd == << <<"s","r","v">> >>
UPLOAD_FOLDER ==
    Path(FALSE, << <<"g","a","l","l","e","r","y","_","i","m","a","g","e","s">> >>)

\* pathlib's parsing of a string into components: empty and "." components
\* are dropped, ".." is kept.
PathParts(s) ==
    LET raw == Split(s, {"/"}, <<>>)
        idx == {i \in 1..Len(raw) : raw[i] # <<".">>}
        RECURSIVE Take(_)
        Take(i) == IF i > Len(raw) THEN <<>>
                   ELSE (IF i \in idx THEN <<raw[i]>> ELSE <<>>) \o Take(i + 1)
    IN  Take(1)

\* base / s: an absolute s replaces base.
Truediv(base, s) ==
    IF s # <<>> /\ s[1] = "/" THEN Path(TRUE, PathParts(s))
    ELSE Path(base.abs, base.parts \o PathParts(s))

\* Path.name, Path.suffix and Path.stem.
PathName(p) == IF p.parts = <<>> THEN <<>> ELSE p.parts[Len(p.parts)]

PathSuffix(p) ==
    LET name == PathName(p)
        i    == LastDot(name)
    IN  IF 1 < i /\ i < Len(name) THEN SubSeq(name, i, Len(name)) ELSE <<>>

PathStem(p) ==
    LET name == PathName(p)
        i    == LastDot(name)
    IN  IF 1 < i /\ i < Len(name) THEN SubSeq(name, 1, i - 1) ELSE name

\* The kernel's path walk: the absolute location a path names (".." of the
\* root is the root; there are no symbolic links in the model).
RECURSIVE Walk(_, _)
Walk(at, parts) ==
    IF parts = <<>> THEN at
    ELSE IF Head(parts) = <<".", ".">>
         THEN Walk(IF at = <<>> THEN <<>> ELSE SubSeq(at, 1, Len(at) - 1), Tail(parts))
         ELSE Walk(Append(at, Head(parts)), Tail(parts))

Resolve(p) == Walk(IF p.abs THEN <<>> ELSE Cwd, p.parts)

StorageDir == Resolve(UPLOAD_FOLDER)

\* The locations that are direct children of the storage directory.
IsChildOfStorage(loc) ==
    /\ Len(loc) = Len(StorageDir) + 1
    /\ SubSeq(loc, 1, Len(StorageDir)) = StorageDir


(***************************************************************************)
(* Bounds of the model and the inputs of the requests                     *)
(***************************************************************************)

\* The number of requests a behaviour issues.
MaxOps == 2
\* The number of blocks FileStorage.save copies for one upload (each block
\* is one write call).
NumChunks == 2
\* The latest value of the file system's clock.
MaxTime == 1
\* The bytes of multipart framing around the file payload in a request.
FormOverhead == 128

\* The request slots: the requests the server handles at a time.
Procs == {1, 2}

A_PNG    == <<"a", ".", "p", "n", "g">>
A_1_PNG  == <<"a", "_", "1", ".", "p", "n", "g">>
A_2_PNG  == <<"a", "_", "2", ".", "p", "n", "g">>
DOT_PNG  == <<".", "p", "n", "g">>
UP_A_PNG == <<".", ".", "/", "a", ".", "p", "n", "g">>
A_EXE    == <<"a", ".", "e", "x", "e">>
A_NOEXT  == <<"a">>
PNG      == <<"p", "n", "g">>
K_PNG    == <<"k", ".", "p", "n", "g">>
UP_K_PNG == <<".", ".", "/", "k", ".", "p", "n", "g">>
DOTDOT   == <<".", ".">>

\* file.filename of the uploads, and the <filename> of fetch and delete.
UploadNames == {A_PNG, A_1_PNG, DOT_PNG, UP_A_PNG, A_EXE, A_NOEXT, <<>>}
RequestNames == {A_PNG, A_1_PNG, PNG, UP_K_PNG, DOTDOT}

\* The payload sizes of the uploads, in bytes: the largest one whose request
\* passes Flask's limit, the configured maximum, and one byte more.
Payloads == {MAX_FILE_SIZE - FormOverhead, MAX_FILE_SIZE, MAX_FILE_SIZE + 1}

\* The content of the k-th request's file, as the blocks save() writes;
\* every request carries its own content.  DataOf(0) is the content of the
\* files present at the start.
DataOf(k) == [i \in 1..NumChunks |-> 10 * k + i]

(***************************************************************************)
(* State                                                                  *)
(***************************************************************************)

VARIABLES
    fs,     \* the file system: absolute location -> node
    now,    \* the last time the file system's clock was read
    nOps,   \* the number of requests issued so far
    pc,     \* per slot: where its request handler stands
    req,    \* per slot: the request
    loc,    \* per slot: the handler's local variables
    resp    \* per slot: the response, once the handler has returned

vars == <<fs, now, nOps, pc, req, loc, resp>>

DirNode == [kind |-> "dir", data |-> <<>>, ctime |-> 0, ino |-> 0]
FileNode(data, t, ino) == [kind |-> "file", data |-> data, ctime |-> t, ino |-> ino]

\* Path.exists() and Path.is_file()
exists(p) == Resolve(p) \in DOMAIN fs
is_file(p) == exists(p) /\ fs[Resolve(p)].kind = "file"

\* The locations of the entries of the storage directory, and their names.
Children(f) == {l \in DOMAIN f : IsChildOfStorage(l)}
DirNames(f) == {l[Len(l)] : l \in Children(f)}

ChildLoc(name) == Append(StorageDir, name)

\* The test of line 43 without its extension part: every regular file is
\* listed.
ListsAnyFile(name) == is_file(Truediv(UPLOAD_FOLDER, name))

\* Line 43: the entry of the storage directory named name goes into the
\* listing.
Lists(name) == is_file(Truediv(UPLOAD_FOLDER, name)) /\ allowed_file(name)

\* Lines 371-374: a fetch of the requested name finds a file to send.
Serves(name) ==
    LET filename == secure_filename(name)
        filepath == Truediv(UPLOAD_FOLDER, filename)
    IN  exists(filepath) /\ is_file(filepath) /\ allowed_file(filename)

\* A file system with one more (or one replaced) node, and with one less.
WithNode(f, l, node) == [m \in DOMAIN f \cup {l} |-> IF m = l THEN node ELSE f[m]]
WithoutNode(f, l) == [m \in DOMAIN f \ {l} |-> f[m]]

\* The world outside the storage directory: the root, the working
\* directory and a file beside the storage directory.
BaseFS ==
    LET locs == {<<>>, Cwd, StorageDir, Append(Cwd, K_PNG)}
    IN  [l \in locs |-> IF l = Append(Cwd, K_PNG) THEN FileNode(DataOf(0), 0, 0)
                        ELSE DirNode]

\* The storage directory at the start: empty; holding a.png; holding a.png
\* and a_1.png; holding a subdirectory named a.png.
InitialFS ==
    { BaseFS,
      WithNode(BaseFS, ChildLoc(A_PNG), FileNode(DataOf(0), 0, 0)),
      WithNode(WithNode(BaseFS, ChildLoc(A_PNG), FileNode(DataOf(0), 0, 0)),
               ChildLoc(A_1_PNG), FileNode(DataOf(0), 0, 0)),
      WithNode(BaseFS, ChildLoc(A_PNG), DirNode) }

NoPath == Path(FALSE, <<>>)
NoReq ==
    [op |-> "none", seq |-> 0, has_file |-> FALSE, raw |-> <<>>, data |-> <<>>,
     payload |-> 0, content_length |-> 0, snap |-> <<>>]
NoLoc ==
    [filename |-> <<>>, filepath |-> NoPath, counter |-> 0, stem |-> <<>>,
     suffix |-> <<>>, off |-> 0, ino |-> 0, pending |-> <<>>, images |-> <<>>]
NoResp ==
    [status |-> 0, error |-> "", filename |-> <<>>, body |-> <<>>,
     images |-> <<>>, at |-> <<>>]

Response(status, error) == [NoResp EXCEPT !.status = status, !.error = error]

Init ==
    /\ fs \in InitialFS
    /\ now = 0
    /\ nOps = 0
    /\ pc = [p \in Procs |-> "idle"]
    /\ req = [p \in Procs |-> NoReq]
    /\ loc = [p \in Procs |-> NoLoc]
    /\ resp = [p \in Procs |-> NoResp]

\* A slot handles no request.
Idle(p) == pc[p] \in {"idle", "done"}

\* A new request goes to the slot that has been without one the longest
\* (the slots are interchangeable: this keeps the two latest responses).
Free(p) ==
    /\ Idle(p)
    /\ nOps < MaxOps
    /\ \A q \in Procs :
          Idle(q) => \/ req[p].seq < req[q].seq
                     \/ (req[p].seq = req[q].seq /\ p <= q)

\* Slot p takes request r; its locals start as l.
Begin(p, r) ==
    /\ req' = [req EXCEPT ![p] = r]
    /\ nOps' = nOps + 1

\* The handler of slot p returns response r; its locals are gone.
Return(p, r) ==
    /\ pc' = [pc EXCEPT ![p] = "done"]
    /\ resp' = [resp EXCEPT ![p] = r]
    /\ loc' = [loc EXCEPT ![p] = NoLoc]

\* The handler of slot p goes on at label with locals l.
Goto(p, label, l) ==
    /\ pc' = [pc EXCEPT ![p] = label]
    /\ resp' = [resp EXCEPT ![p] = NoResp]
    /\ loc' = [loc EXCEPT ![p] = l]

\* snap records the file system as the request found it (it is not read by
\* any handler: the properties compare it with the file system afterwards).
Request(op, raw) ==
    [NoReq EXCEPT !.op = op, !.seq = nOps + 1, !.raw = raw, !.snap = fs]

(***************************************************************************)
(* POST /api/upload: upload_file (lines 335-366)                          *)
(***************************************************************************)

UploadRequests ==
    { [Request("upload", raw) EXCEPT
          !.has_file = TRUE, !.data = DataOf(nOps + 1), !.payload = n,
          !.content_length = n + FormOverhead, !.snap = fs]
        : raw \in UploadNames, n \in Payloads }
    \cup
    { [Request("upload", <<>>) EXCEPT !.content_length = FormOverhead, !.snap = fs] }

\* The name with the counter off by one.
ConflictNameOffByOne(stem, counter, suffix) ==
    stem \o <<"_">> \o IntToStr(counter + 1) \o suffix

\* f"{stem}_{counter}{suffix}" (line 355)
ConflictName(stem, counter, suffix) == stem \o <<"_">> \o IntToStr(counter) \o suffix

\* Lines 337-353: everything before the first file-system call.  Reading
\* request.files parses the body; Flask raises RequestEntityTooLarge there
\* when Content-Length exceeds MAX_CONTENT_LENGTH, inside the try block, so
\* the handler's except clause (lines 363-366) turns it into a 500.
UploadStart(p) ==
    /\ Free(p)
    /\ \E r \in UploadRequests :
        /\ Begin(p, r)
        /\ IF r.content_length > MAX_CONTENT_LENGTH
           THEN Return(p, Response(500, "An internal server error occurred"))
           ELSE IF ~r.has_file
           THEN Return(p, Response(400, "No file part"))
           ELSE IF r.raw = <<>>
           THEN Return(p, Response(400, "No selected file"))
           ELSE IF allowed_file(r.raw)
           THEN LET filename == secure_filename(r.raw)
                    filepath == Truediv(UPLOAD_FOLDER, filename)
                IN  Goto(p, "u_check",
                         [NoLoc EXCEPT !.filename = filename,
                                       !.filepath = filepath,
                                       !.counter = 1,
                                       !.stem = PathStem(filepath),
                                       !.suffix = PathSuffix(filepath)])
           ELSE Return(p, Response(400, "File type not allowed"))
    /\ UNCHANGED <<fs, now>>

\* The loop left out: the sanitized name is used as it is.
UploadCheckSkipped(p) ==
    /\ pc[p] = "u_check"
    /\ Goto(p, "u_open", loc[p])
    /\ UNCHANGED <<fs, now, nOps, req>>

\* The loop with its body left out: the same path is tested again.
UploadCheckStuck(p) ==
    /\ pc[p] = "u_check"
    /\ IF exists(loc[p].filepath)
       THEN Goto(p, "u_check", loc[p])
       ELSE Goto(p, "u_open", loc[p])
    /\ UNCHANGED <<fs, now, nOps, req>>

\* Lines 354-357: one test of the loop, and its body when the path exists.
UploadCheck(p) ==
    /\ pc[p] = "u_check"
    /\ IF exists(loc[p].filepath)
       THEN Goto(p, "u_check",
                 [loc[p] EXCEPT
                     !.filepath =
                         Truediv(UPLOAD_FOLDER,
                                 ConflictName(loc[p].stem, loc[p].counter, loc[p].suffix)),
                     !.counter = loc[p].counter + 1])
       ELSE Goto(p, "u_open", loc[p])
    /\ UNCHANGED <<fs, now, nOps, req>>

\* Line 359, file.save(filepath), first part: open(filepath, "wb") creates
\* the file or truncates the one that is there; opening a directory raises.
UploadOpen(p) ==
    /\ pc[p] = "u_open"
    /\ LET l == Resolve(loc[p].filepath)
       IN  IF l \in DOMAIN fs /\ fs[l].kind = "dir"
           THEN /\ Return(p, Response(500, "An internal server error occurred"))
                /\ UNCHANGED <<fs, now>>
           ELSE \E t \in now..MaxTime :
                LET ino == IF l \in DOMAIN fs THEN fs[l].ino ELSE req[p].seq
                IN  /\ fs' = WithNode(fs, l, FileNode(<<>>, t, ino))
                    /\ now' = t
                    /\ Goto(p, "u_write", [loc[p] EXCEPT !.off = 0, !.ino = ino])
    /\ UNCHANGED <<nOps, req>>

\* The block put at the end of the file, whatever the offset (a file opened
\* for appending).
WriteAtEnd(data, off, block) == Append(data, block)

\* A write of one block at offset off into a file of content data: what lies
\* between the end of the file and the offset reads as zeros.
WriteAt(data, off, block) ==
    [i \in 1..(IF Len(data) > off + 1 THEN Len(data) ELSE off + 1) |->
        IF i = off + 1 THEN block
        ELSE IF i <= Len(data) THEN data[i]
        ELSE 0]

\* Line 359, second part: copyfileobj writes the next block through the
\* handler's own file descriptor (the file it opened, also when the name
\* has been unlinked or rebound since); after the last block save() closes
\* the file and line 360 returns 201 with filepath.name.
UploadWrite(p) ==
    /\ pc[p] = "u_write"
    /\ LET l     == Resolve(loc[p].filepath)
           off   == loc[p].off
           bound == l \in DOMAIN fs /\ fs[l].kind = "file" /\ fs[l].ino = loc[p].ino
       IN  /\ \E t \in now..MaxTime :
                /\ now' = t
                /\ fs' = IF bound
                         THEN WithNode(fs, l,
                                  FileNode(WriteAt(fs[l].data, off, req[p].data[off + 1]),
                                           t, fs[l].ino))
                         ELSE fs
           /\ IF off + 1 = Len(req[p].data)
              THEN Return(p, [Response(201, "") EXCEPT
                                 !.filename = PathName(loc[p].filepath), !.at = l])
              ELSE Goto(p, "u_write", [loc[p] EXCEPT !.off = off + 1])
    /\ UNCHANGED <<nOps, req>>

\* Line 359 raising OSError (a full disk, a failing device) at the open or
\* at a write: lines 363-366 return 500; nothing removes what was written.
UploadFault(p) ==
    /\ pc[p] \in {"u_open", "u_write"}
    /\ Return(p, [Response(500, "An internal server error occurred") EXCEPT
                     !.filename = PathName(loc[p].filepath),
                     !.at = Resolve(loc[p].filepath)])
    /\ UNCHANGED <<fs, now, nOps, req>>

(***************************************************************************)
(* GET /images/<filename>: uploaded_file (lines 368-383)                  *)
(***************************************************************************)

\* Lines 372-374 (the two stat calls of the condition are taken together:
\* a file removed or created between them gives an outcome that one of the
\* two orders gives).
FetchCheck(p) ==
    /\ Free(p)
    /\ \E name \in RequestNames :
        LET filename == secure_filename(name)
            filepath == Truediv(UPLOAD_FOLDER, filename)
        IN  /\ Begin(p, Request("fetch", name))
            /\ IF Serves(name)
               THEN Goto(p, "f_send",
                         [NoLoc EXCEPT !.filename = filename, !.filepath = filepath])
               ELSE Return(p, Response(404, "Image not found"))
    /\ UNCHANGED <<fs, now>>

\* Lines 376-377: send_file opens the file and the response carries what it
\* holds; a file that is gone raises, and line 383 returns 500.
FetchSend(p) ==
    /\ pc[p] = "f_send"
    /\ LET l == Resolve(loc[p].filepath)
       IN  IF l \in DOMAIN fs /\ fs[l].kind = "file"
           THEN Return(p, [Response(200, "") EXCEPT
                              !.filename = loc[p].filename,
                              !.body = fs[l].data,
                              !.at = l])
           ELSE Return(p, Response(500, "Error retrieving image"))
    /\ UNCHANGED <<fs, now, nOps, req>>

(***************************************************************************)
(* DELETE /api/delete/<filename>: delete_file (lines 393-405)             *)
(***************************************************************************)

\* Lines 396-398.
DeleteCheck(p) ==
    /\ Free(p)
    /\ \E name \in RequestNames :
        LET filename == secure_filename(name)
            filepath == Truediv(UPLOAD_FOLDER, filename)
        IN  /\ Begin(p, Request("delete", name))
            /\ IF exists(filepath) /\ is_file(filepath)
               THEN Goto(p, "d_unlink",
                         [NoLoc EXCEPT !.filename = filename, !.filepath = filepath])
               ELSE Return(p, Response(404, "Image not found"))
    /\ UNCHANGED <<fs, now>>

\* The unlink left out: success is reported and the file stays.
DeleteUnlinkKeepsFile(p) ==
    /\ pc[p] = "d_unlink"
    /\ Return(p, [Response(200, "Image deleted successfully") EXCEPT
                     !.filename = loc[p].filename, !.at = Resolve(loc[p].filepath)])
    /\ UNCHANGED <<fs, now, nOps, req>>

\* Lines 399-400: unlink raises when the file is gone (or is a directory),
\* and lines 403-405 return 500.
DeleteUnlink(p) ==
    /\ pc[p] = "d_unlink"
    /\ LET l == Resolve(loc[p].filepath)
       IN  IF l \in DOMAIN fs /\ fs[l].kind = "file"
           THEN /\ fs' = WithoutNode(fs, l)
                /\ Return(p, [Response(200, "Image deleted successfully") EXCEPT
                                 !.filename = loc[p].filename, !.at = l])
           ELSE /\ Return(p, Response(500, "An internal server error occurred"))
                /\ UNCHANGED fs
    /\ UNCHANGED <<now, nOps, req>>

(***************************************************************************)
(* GET /api/images: list_images_api (lines 385-391), list_images (38-47)  *)
(***************************************************************************)

\* The orders in which a scan can yield the names of a directory.
Orders(S) ==
    {s \in [1..Cardinality(S) -> S] : \A i, j \in 1..Cardinality(S) : s[i] = s[j] => i = j}

\* get_image_info (lines 27-36) without the MIME type: size in blocks, and
\* the change time that upload_time is formatted from.
get_image_info(filepath) ==
    [filename |-> PathName(filepath),
     size_bytes |-> Len(fs[Resolve(filepath)].data),
     upload_time |-> fs[Resolve(filepath)].ctime]

\* images.sort(key=upload_time, reverse=True) (line 46): a stable sort, so
\* entries of equal upload_time keep the order they were appended in.
RECURSIVE InsertByTime(_, _)
InsertByTime(sorted, x) ==
    IF sorted = <<>> THEN <<x>>
    ELSE IF Head(sorted).upload_time >= x.upload_time
         THEN <<Head(sorted)>> \o InsertByTime(Tail(sorted), x)
         ELSE <<x>> \o sorted

RECURSIVE SortNewestFirst(_)
SortNewestFirst(images) ==
    IF images = <<>> THEN <<>>
    ELSE InsertByTime(SortNewestFirst(SubSeq(images, 1, Len(images) - 1)),
                      images[Len(images)])

\* Lines 46-47 and 388: the loop is over.
ListReturn(p, images) ==
    Return(p, [Response(200, "") EXCEPT !.images = SortNewestFirst(images)])

\* Lines 40-42: iterdir reads the names of the directory, in some order.
ListScan(p) ==
    /\ Free(p)
    /\ Begin(p, Request("list", <<>>))
    /\ IF exists(UPLOAD_FOLDER)
       THEN \E order \in Orders(DirNames(fs)) :
               IF order = <<>> THEN ListReturn(p, <<>>)
               ELSE Goto(p, "l_isfile", [NoLoc EXCEPT !.pending = order])
       ELSE ListReturn(p, <<>>)
    /\ UNCHANGED <<fs, now>>

\* Line 43 for the next name of the scan.
ListIsFile(p) ==
    /\ pc[p] = "l_isfile"
    /\ LET name == Head(loc[p].pending)
           file_path == Truediv(UPLOAD_FOLDER, name)
       IN  IF Lists(name)
           THEN Goto(p, "l_stat", loc[p])
           ELSE IF Tail(loc[p].pending) = <<>>
           THEN ListReturn(p, loc[p].images)
           ELSE Goto(p, "l_isfile", [loc[p] EXCEPT !.pending = Tail(loc[p].pending)])
    /\ UNCHANGED <<fs, now, nOps, req>>

\* Line 44: stat of the file; a file that is gone raises, and lines 389-391
\* return 500.
ListStat(p) ==
    /\ pc[p] = "l_stat"
    /\ LET name == Head(loc[p].pending)
           file_path == Truediv(UPLOAD_FOLDER, name)
           rest == Tail(loc[p].pending)
       IN  IF ~exists(file_path)
           THEN Return(p, Response(500, "Failed to retrieve image list"))
           ELSE LET images == Append(loc[p].images, get_image_info(file_path))
                IN  IF rest = <<>> THEN ListReturn(p, images)
                    ELSE Goto(p, "l_isfile",
                              [loc[p] EXCEPT !.pending = rest, !.images = images])
    /\ UNCHANGED <<fs, now, nOps, req>>

(***************************************************************************)
(* The server                                                             *)
(***************************************************************************)

\* The first step of a request, and the later steps of its handler.
Start(p) ==
    \/ UploadStart(p)
    \/ FetchCheck(p)
    \/ DeleteCheck(p)
    \/ ListScan(p)

Step(p) ==
    \/ UploadCheck(p)
    \/ UploadOpen(p)
    \/ UploadWrite(p)
    \/ UploadFault(p)
    \/ FetchSend(p)
    \/ DeleteUnlink(p)
    \/ ListIsFile(p)
    \/ ListStat(p)

\* A threaded server with one request per worker thread: the requests start
\* and their handlers take steps in any order, all of them possibly at once.
Next == \E p \in Procs : (pc[p] = "idle" /\ Start(p)) \/ Step(p)

Spec == Init /\ [][Next]_vars

\* Non-overlapping operations: a request starts when no handler is running
\* (a worker thread serves one request after the other).
Quiet == \A q \in Procs : Idle(q)

SeqNext == \E p \in Procs : (Quiet /\ Start(p)) \/ Step(p)

SeqSpec == Init /\ [][SeqNext]_vars

\* Uploads and deletes only, of two names that are each other's conflict
\* candidates, the uploads of a size that passes the limit.
LoopNames == {A_PNG, A_1_PNG}

LoopStart(p) ==
    \/ /\ UploadStart(p)
       /\ req'[p].raw \in LoopNames
       /\ req'[p].payload = MAX_FILE_SIZE - FormOverhead
    \/ /\ DeleteCheck(p)
       /\ req'[p].raw \in LoopNames

LoopStep(p) ==
    \/ UploadCheck(p)
    \/ UploadOpen(p)
    \/ UploadWrite(p)
    \/ UploadFault(p)
    \/ DeleteUnlink(p)

LoopNext == \E p \in Procs : (pc[p] = "idle" /\ LoopStart(p)) \/ LoopStep(p)

\* The threads of the server are scheduled fairly: a handler that can take
\* a step takes one.
FairLoopSpec == Init /\ [][LoopNext]_vars /\ \A p \in Procs : WF_vars(LoopStep(p))

(***************************************************************************)
(* Properties                                                             *)
(***************************************************************************)

\* Slot p holds the response of a finished request of kind op.
Done(p, op) == pc[p] = "done" /\ req[p].op = op

\* Slot p holds the response of the latest request, and nothing has run
\* since it returned.
Latest(p) == pc[p] = "done" /\ req[p].seq = nOps /\ Quiet

\* The extension rule in the words of the specification (section 4.2): the
\* name has a "." and what follows its last ".", lower-cased, is one of
\* png, jpg, jpeg, gif, webp.
AllowList ==
    { <<"p","n","g">>, <<"j","p","g">>, <<"j","p","e","g">>,
      <<"g","i","f">>, <<"w","e","b","p">> }

HasAllowedExtension(name) ==
    \E i \in 1..Len(name) :
        /\ name[i] = "."
        /\ \A j \in (i + 1)..Len(name) : name[j] # "."
        /\ LowerStr(SubSeq(name, i + 1, Len(name))) \in AllowList

\* File system g is file system f with exactly one file added at l.
AddsOnly(f, g, l) ==
    /\ l \notin DOMAIN f
    /\ DOMAIN g = DOMAIN f \cup {l}
    /\ \A m \in DOMAIN f : g[m] = f[m]

\* C1: when two uploads with different raw filenames have both returned
\* 201, they returned different filenames, and the directory holds each
\* one's file with exactly the content of its request.
C1_ConcurrentUploadsKeepBoth ==
    \A p, q \in Procs :
        ( /\ p # q
          /\ Done(p, "upload") /\ Done(q, "upload")
          /\ resp[p].status = 201 /\ resp[q].status = 201
          /\ req[p].raw # req[q].raw )
        => /\ resp[p].filename # resp[q].filename
           /\ resp[p].at \in DOMAIN fs /\ fs[resp[p].at].data = req[p].data
           /\ resp[q].at \in DOMAIN fs /\ fs[resp[q].at].data = req[q].data

\* C2: without overlap, an upload that returns 201 has added exactly one
\* file to the storage directory, under the returned name, which was not
\* present before, with the request's content; every node that was there
\* before is unchanged.
C2_UploadAddsOneNewFile ==
    \A p \in Procs :
        (Latest(p) /\ req[p].op = "upload" /\ resp[p].status = 201)
        => /\ resp[p].at = ChildLoc(resp[p].filename)
           /\ AddsOnly(req[p].snap, fs, resp[p].at)
           /\ fs[resp[p].at].kind = "file"
           /\ fs[resp[p].at].data = req[p].data

\* An upload returned 201 for a name that was taken when it started.
C2_Witness ==
    \E p \in Procs :
        /\ Latest(p) /\ req[p].op = "upload" /\ resp[p].status = 201
        /\ secure_filename(req[p].raw) \in DirNames(req[p].snap)
        /\ Cardinality(Children(fs)) >= 2

\* The name section 4.3 prescribes for base name b in a directory holding
\* the names present: b itself when it is free, else stem_k + ext for the
\* least k >= 1 that is free.
ResolvedName(b, present) ==
    LET i    == LastDot(b)
        stem == IF 1 < i /\ i < Len(b) THEN SubSeq(b, 1, i - 1) ELSE b
        ext  == IF 1 < i /\ i < Len(b) THEN SubSeq(b, i, Len(b)) ELSE <<>>
        cand(k) == stem \o <<"_">> \o IntToStr(k) \o ext
        k0   == CHOOSE k \in 1..(Cardinality(present) + 1) :
                    /\ cand(k) \notin present
                    /\ \A j \in 1..(k - 1) : cand(j) \in present
    IN  IF b \notin present THEN b ELSE cand(k0)

\* C3: without overlap, an upload that returns 201 stored its file under the
\* name the conflict rule gives for the sanitized name and the names that
\* were in the directory when it started.
C3_ConflictResolution ==
    \A p \in Procs :
        (Latest(p) /\ req[p].op = "upload" /\ resp[p].status = 201)
        => resp[p].filename =
               ResolvedName(secure_filename(req[p].raw), DirNames(req[p].snap))

\* With a.png and a_1.png present, an upload of a.png was stored as a_2.png.
C3_Witness ==
    \E p \in Procs :
        /\ Latest(p) /\ req[p].op = "upload" /\ resp[p].status = 201
        /\ secure_filename(req[p].raw) = A_PNG
        /\ {A_PNG, A_1_PNG} \subseteq DirNames(req[p].snap)
        /\ resp[p].filename = A_2_PNG

\* C4: every file in the storage directory has a name with an allow-listed
\* extension.
C4_StoredNamesAllowed ==
    \A l \in Children(fs) :
        fs[l].kind = "file" => HasAllowedExtension(l[Len(l)])

\* C5: a fetch of the filename an upload returned with 201, issued right
\* after that upload, returns 200 and the uploaded content.
C5_RoundTrip ==
    \A p, q \in Procs :
        ( /\ Done(p, "upload") /\ resp[p].status = 201
          /\ Done(q, "fetch") /\ req[q].seq = req[p].seq + 1
          /\ req[q].raw = resp[p].filename )
        => /\ resp[q].status = 200
           /\ resp[q].body = req[p].data

\* C6: a fetch or a list that returns while an upload is writing its file
\* has either not seen the file or has seen all of its content.
C6_NoPartialFileObserved ==
    \A p, q \in Procs :
        (pc[p] = "u_write" /\ pc[q] = "done" /\ req[q].seq > req[p].seq)
        => /\ ( /\ req[q].op = "fetch" /\ resp[q].status = 200
                /\ resp[q].at = Resolve(loc[p].filepath) )
              => resp[q].body = req[p].data
           /\ req[q].op = "list"
              => \A i \in 1..Len(resp[q].images) :
                    resp[q].images[i].filename = PathName(loc[p].filepath)
                    => resp[q].images[i].size_bytes = Len(req[p].data)

\* C7: without overlap, an upload whose write failed has returned 500 and
\* the file system is as it was before the upload.
C7_FailedWriteLeavesNothing ==
    \A p \in Procs :
        ( /\ Latest(p) /\ req[p].op = "upload"
          /\ resp[p].error = "An internal server error occurred"
          /\ resp[p].at # <<>> )
        => /\ resp[p].status = 500
           /\ fs = req[p].snap

\* C8: what a fetch serves and what a delete unlinks is a file directly in
\* the storage directory, and nothing outside the storage directory (nor
\* the storage directory itself) is ever removed or changed.
C8_NoEscape ==
    /\ \A q \in Procs :
          (pc[q] = "done" /\ req[q].op \in {"fetch", "delete"} /\ resp[q].status = 200)
          => IsChildOfStorage(resp[q].at)
    /\ \A l \in DOMAIN BaseFS : l \in DOMAIN fs /\ fs[l] = BaseFS[l]

\* A delete of "../k.png" has been answered, and a fetch or delete of a
\* stored file has succeeded.
C8_Witness ==
    \E p, q \in Procs :
        /\ Done(p, "delete") /\ req[p].raw = UP_K_PNG
        /\ pc[q] = "done" /\ req[q].op \in {"fetch", "delete"}
        /\ resp[q].status = 200

C10_TooLargeIs413 ==
    \A p \in Procs :
        (Latest(p) /\ req[p].op = "upload" /\ req[p].payload > MAX_FILE_SIZE)
        => /\ resp[p].status = 413
           /\ fs = req[p].snap

\* C11: without overlap, an upload with an allowed name whose file payload
\* is exactly MAX_FILE_SIZE bytes is stored and returns 201 (unless the write
\* itself fails), and one whose payload is MAX_FILE_SIZE + 1 bytes is
\* rejected without storing anything.
C11_SizeBoundary ==
    \A p \in Procs :
        (Latest(p) /\ req[p].op = "upload" /\ req[p].has_file
            /\ HasAllowedExtension(req[p].raw))
        => /\ req[p].payload = MAX_FILE_SIZE
              => \/ resp[p].status = 201 /\ resp[p].at \in DOMAIN fs
                 \/ resp[p].at # <<>>
           /\ req[p].payload = MAX_FILE_SIZE + 1
              => resp[p].status # 201 /\ fs = req[p].snap

\* C12: without overlap, a delete of a name whose sanitized form is a
\* regular file of the storage directory returns 200 and removes exactly
\* that file; any other delete returns 404 and changes nothing; and a
\* delete of a name right after a successful delete of the same name
\* returns 404.
C12_Delete ==
    /\ \A p \in Procs :
          (Latest(p) /\ req[p].op = "delete")
          => LET l == ChildLoc(secure_filename(req[p].raw))
                 f == req[p].snap
             IN  IF l \in DOMAIN f /\ f[l].kind = "file"
                 THEN /\ resp[p].status = 200
                      /\ DOMAIN fs = DOMAIN f \ {l}
                      /\ \A m \in DOMAIN fs : fs[m] = f[m]
                 ELSE /\ resp[p].status = 404
                      /\ fs = f
    /\ \A p, q \in Procs :
          ( /\ Done(p, "delete") /\ resp[p].status = 200
            /\ Done(q, "delete") /\ req[q].seq = req[p].seq + 1
            /\ req[q].raw = req[p].raw )
          => resp[q].status = 404

\* A file was deleted, and a second delete of the same name was answered.
C12_Witness ==
    \E p, q \in Procs :
        /\ Done(p, "delete") /\ resp[p].status = 200
        /\ Latest(q) /\ req[q].op = "delete" /\ req[q].seq = req[p].seq + 1
        /\ req[q].raw = req[p].raw
        /\ Children(req[p].snap) # Children(fs)

\* The code point of a character (ord), for the characters of file names.
Ord(c) ==
    CASE c = "-" -> 45  [] c = "." -> 46
      [] c = "0" -> 48  [] c = "1" -> 49  [] c = "2" -> 50  [] c = "3" -> 51
      [] c = "4" -> 52  [] c = "5" -> 53  [] c = "6" -> 54  [] c = "7" -> 55
      [] c = "8" -> 56  [] c = "9" -> 57
      [] c = "G" -> 71  [] c = "N" -> 78  [] c = "P" -> 80
      [] c = "_" -> 95
      [] c = "a" -> 97  [] c = "b" -> 98  [] c = "e" -> 101 [] c = "g" -> 103
      [] c = "k" -> 107 [] c = "n" -> 110 [] c = "p" -> 112 [] c = "x" -> 120

\* a < b for strings: at the first position where they differ a has the
\* smaller character, or a is a proper prefix of b.
StrLess(a, b) ==
    \/ /\ Len(a) < Len(b)
       /\ \A i \in 1..Len(a) : a[i] = b[i]
    \/ \E i \in 1..Len(a) :
          /\ i <= Len(b)
          /\ \A j \in 1..(i - 1) : a[j] = b[j]
          /\ Ord(a[i]) < Ord(b[i])

\* C13: a listing is ordered by upload_time, newest first, and entries of
\* equal upload_time are in ascending order of filename.
C13_ListingOrder ==
    \A p \in Procs :
        (Done(p, "list") /\ resp[p].status = 200)
        => \A i, j \in 1..Len(resp[p].images) :
              i < j =>
                LET x == resp[p].images[i]
                    y == resp[p].images[j]
                IN  \/ x.upload_time > y.upload_time
                    \/ /\ x.upload_time = y.upload_time
                       /\ StrLess(x.filename, y.filename)

\* C14: without overlap, a list leaves the file system as it was, and two
\* lists with nothing between them return the same entries in the same
\* order.
C14_ListIdempotent ==
    /\ \A p \in Procs :
          (Latest(p) /\ req[p].op = "list") => fs = req[p].snap
    /\ \A p, q \in Procs :
          ( /\ Done(p, "list") /\ resp[p].status = 200
            /\ Done(q, "list") /\ resp[q].status = 200
            /\ req[q].seq = req[p].seq + 1 )
          => resp[q].images = resp[p].images

\* The filenames of a listing.
ListedNames(images) == {images[i].filename : i \in 1..Len(images)}

\* C15: without overlap, a list issued right after an upload that returned
\* 201 with filename f contains f; a list issued right after a successful
\* delete of f does not contain f; and a list returns exactly the regular
\* files with an allow-listed extension that the directory held.
C15_ListingFresh ==
    /\ \A p, q \in Procs :
          ( /\ Done(q, "list") /\ resp[q].status = 200
            /\ pc[p] = "done" /\ req[q].seq = req[p].seq + 1 )
          => /\ (req[p].op = "upload" /\ resp[p].status = 201)
                => resp[p].filename \in ListedNames(resp[q].images)
             /\ (req[p].op = "delete" /\ resp[p].status = 200)
                => resp[p].filename \notin ListedNames(resp[q].images)
    /\ \A q \in Procs :
          Done(q, "list")
          => /\ resp[q].status = 200
             /\ ListedNames(resp[q].images) =
                  { l[Len(l)] : l \in { m \in Children(req[q].snap) :
                        /\ req[q].snap[m].kind = "file"
                        /\ HasAllowedExtension(m[Len(m)]) } }

\* C16: two overlapping uploads of the same raw filename can both return 201
\* with the same filename; the one file of that name then holds, block by
\* block, what one of the two requests sent, so the content of at least one
\* of them is not stored.
C16_SameNameOneLost ==
    \A p, q \in Procs :
        ( /\ p # q
          /\ Done(p, "upload") /\ resp[p].status = 201
          /\ Done(q, "upload") /\ resp[q].status = 201
          /\ req[p].raw = req[q].raw
          /\ resp[p].filename = resp[q].filename )
        => /\ resp[p].at = resp[q].at
           /\ resp[p].at \in DOMAIN fs
           /\ LET d == fs[resp[p].at].data
              IN  /\ Len(d) = NumChunks
                  /\ \A i \in 1..NumChunks : d[i] \in {req[p].data[i], req[q].data[i]}
                  /\ d # req[p].data \/ d # req[q].data

C16_Witness ==
    \E p, q \in Procs :
        /\ p # q
        /\ Done(p, "upload") /\ resp[p].status = 201
        /\ Done(q, "upload") /\ resp[q].status = 201
        /\ req[p].raw = req[q].raw
        /\ resp[p].filename = resp[q].filename
        /\ resp[p].at \in DOMAIN fs
        /\ fs[resp[p].at].data = req[q].data
        /\ fs[resp[p].at].data # req[p].data

\* C17: when two overlapping deletes of the same name, which was a regular
\* file when the earlier of them arrived, have both returned, one returned
\* 200 and the other 404, and neither returned 500.
C17_ConcurrentDeletes ==
    \A p, q \in Procs :
        ( /\ p # q
          /\ Done(p, "delete") /\ Done(q, "delete")
          /\ req[p].raw = req[q].raw
          /\ req[p].seq < req[q].seq
          /\ LET l == ChildLoc(secure_filename(req[p].raw))
             IN  l \in DOMAIN req[p].snap /\ req[p].snap[l].kind = "file" )
        => /\ {resp[p].status, resp[q].status} = {200, 404}
           /\ ChildLoc(secure_filename(req[p].raw)) \notin DOMAIN fs

\* Every entry of the storage directory is a file that an upload created.
UploadedOnly ==
    \A l \in Children(fs) : fs[l].kind = "file" /\ fs[l].ino >= 1

\* C18: while the storage directory holds only files that uploads created,
\* every name that a list returns is served by a fetch of that exact name,
\* and every file of the directory that some fetch serves is listed.
C18_ListAndFetchAgree ==
    UploadedOnly
    => /\ \A n \in DirNames(fs) :
             Lists(n) => Serves(n) /\ secure_filename(n) = n
       /\ \A r \in RequestNames \cup DirNames(fs) :
             Serves(r) => Lists(secure_filename(r))

C18_Witness ==
    /\ UploadedOnly
    /\ \E p \in Procs : Done(p, "upload") /\ resp[p].status = 201
    /\ \E n \in DirNames(fs) : Lists(n) /\ Serves(n)
    /\ \E n \in DirNames(fs) : ~Lists(n) /\ ~Serves(n)

\* C19: under fair scheduling every upload that has reached the loop, the
\* open or the writes returns a response, also while another request adds or
\* removes names.
C19_UploadReturns ==
    \A p \in Procs :
        (pc[p] \in {"u_check", "u_open", "u_write"}) ~> (pc[p] = "done")

C19_Witness ==
    \E p, q \in Procs :
        /\ p # q
        /\ Done(p, "upload") /\ resp[p].status = 201
        /\ resp[p].filename # secure_filename(req[p].raw)
        /\ req[q].op \in {"upload", "delete"}
        /\ req[q].seq < req[p].seq
        /\ pc[q] # "done"

====
